---- MODULE Spec2Model ----
(***************************************************************************)
(* Model of the usePolicies hook (src/src/hooks/usePolicies.ts).           *)
(*                                                                         *)
(* A policy is a JavaScript object, modelled as a function from property   *)
(* names to values.  A property that is absent reads as Undefined, as in   *)
(* JavaScript.  The hook's React state is the pair                         *)
(*   policies : the value the current render (and so every handler closure *)
(*              of that render) sees,                                      *)
(*   queued   : the value passed to the last setPolicies call that React   *)
(*              has not rendered yet (<<>> when none, <<list>> otherwise). *)
(* Numbers that the code divides are kept as exact fractions <<n, d>>.     *)
(***************************************************************************)
EXTENDS Integers, Sequences, FiniteSets, TLC

\* ------------------------------------------------------------------ bounds
MaxOps == 2        \* mutations (add/update/delete) issued in one behaviour
MaxTime == 1       \* the clock stops advancing at this instant
MaxPerTick == 2    \* mutations issued between two renders

\* ------------------------------------------------------- values and helpers
Undefined == "undefined"

Get(obj, f) == IF f \in DOMAIN obj THEN obj[f] ELSE Undefined

\* { ...a, ...b }
Spread(a, b) ==
  [f \in (DOMAIN a) \cup (DOMAIN b) |-> IF f \in DOMAIN b THEN b[f] ELSE a[f]]

toISOString(t) == <<"iso", t>>

randomUUID(n) == <<"uuid", n>>

Min(a, b) == IF a < b THEN a ELSE b

RECURSIVE GCD(_, _)
GCD(a, b) == IF b = 0 THEN a ELSE GCD(b, a % b)

\* exact fractions, kept in lowest terms with a positive denominator
Rat(n, d) == LET g == GCD(n, d) IN IF g = 0 THEN <<0, 1>> ELSE <<n \div g, d \div g>>
RatAdd(x, y) == Rat(x[1] * y[2] + y[1] * x[2], x[2] * y[2])
RatInt(n) == <<n, 1>>

\* ------------------------------------------------------------ date utilities
Today == 10
DueSoonDays == 30

getDaysUntilRenewal(renewalDate) == renewalDate - Today

isRenewalDueSoon(renewalDate) ==
  /\ getDaysUntilRenewal(renewalDate) >= 0
  /\ getDaysUntilRenewal(renewalDate) <= DueSoonDays

\* --------------------------------------------------------------- the inputs
OldPolicy(n, name, freq, premium, renewal) ==
  LET core == [id |-> <<"uuid", 100 + n>>, policyholderName |-> name,
               dateOfBirth |-> 1980, insuranceCategory |-> "health",
               policyPremiumAmount |-> premium, policyRenewalDate |-> renewal,
               createdAt |-> <<"iso", 0>>, updatedAt |-> <<"iso", 0>>]
  IN  IF freq = Undefined THEN core ELSE Spread(core, [renewalFrequency |-> freq])

\* what an earlier session of the program can have left in storage
StoredLists ==
  { <<>>,
    << OldPolicy(1, "Ann", Undefined, 1200, 50) >>,
    << OldPolicy(1, "Ann", "monthly", 1200, 20), OldPolicy(2, "Bob", "yearly", 1200, 13) >>,
    << OldPolicy(1, "Ann", "yearly", 50, 13), OldPolicy(2, "Bob", Undefined, 1200, 13) >> }

\* arguments of addPolicy: a new policy, and a whole Policy object read from
\* the list and passed again (it carries id, createdAt and updatedAt, and no
\* renewalFrequency)
AddInputs ==
  { [policyholderName |-> "Cy", dateOfBirth |-> 1990, insuranceCategory |-> "auto",
     policyPremiumAmount |-> 1200, policyRenewalDate |-> 13, renewalFrequency |-> "monthly"],
    [id |-> <<"uuid", 101>>, policyholderName |-> "Ann", dateOfBirth |-> 1980,
     insuranceCategory |-> "health", policyPremiumAmount |-> 1200, policyRenewalDate |-> 5,
     createdAt |-> <<"iso", 0>>, updatedAt |-> <<"iso", 0>>] }

UnknownId == <<"uuid", 0>>

\* the ids a caller can name: those of the rendered list, and one that matches
\* nothing (addPolicy does not return the id it generates)
CallerIds(list) == {list[i].id : i \in DOMAIN list} \cup {UnknownId}

\* arguments of updatePolicy (Partial<Policy>); the last one names the id of
\* the last record of the list
UpdateInputs(list) ==
  { [policyPremiumAmount |-> 50],
    [renewalFrequency |-> "monthly", policyRenewalDate |-> 13],
    [updatedAt |-> <<"iso", 0>>, policyholderName |-> "Eve"] }
  \cup { [id |-> list[i].id] : i \in (DOMAIN list) \cap {Len(list)} }

\* ------------------------------------------------------- persistence shim
loadFromLocalStorage(stored) == stored

saveToLocalStorage(stored, list) == list

\* ------------------------------------------------------------ initialization
migratePolicies(loadedPolicies) ==
  [i \in DOMAIN loadedPolicies |->
     Spread(loadedPolicies[i],
            [renewalFrequency |->
               IF Get(loadedPolicies[i], "renewalFrequency") = Undefined
               THEN "yearly"
               ELSE loadedPolicies[i].renewalFrequency])]

\* variant: only the length check decides whether to write back
migrationChanged_LengthOnly(migratedPolicies, loadedPolicies) ==
  Len(migratedPolicies) # Len(loadedPolicies)


migrationChanged(migratedPolicies, loadedPolicies) ==
  \/ Len(migratedPolicies) # Len(loadedPolicies)
  \/ \E i \in DOMAIN migratedPolicies :
       migratedPolicies[i].renewalFrequency
         # (IF i \in DOMAIN loadedPolicies
            THEN Get(loadedPolicies[i], "renewalFrequency") ELSE Undefined)

\* ------------------------------------------------------------------ mutations
\* variant: a handler that reads the latest queued list (a functional update)
closurePolicies_Latest(rendered, queuedState) ==
  IF queuedState = <<>> THEN rendered ELSE queuedState[1]


\* the list a handler reads is the one captured by the closure of its render
closurePolicies(rendered, queuedState) == rendered

\* variant: the new list reaches React but not the storage
savePolicies_NoPersist(newPolicies) == [state |-> <<newPolicies>>, saved |-> <<>>]


\* savePolicies: what goes to setPolicies and what goes to saveToLocalStorage
savePolicies(newPolicies) == [state |-> <<newPolicies>>, saved |-> <<newPolicies>>]

\* variant: the caller's object is spread last, over the generated fields
newPolicyOf_CallerWins(policy, id, createdAt, updatedAt) ==
  Spread([id |-> id, createdAt |-> createdAt, updatedAt |-> updatedAt], policy)


newPolicyOf(policy, id, createdAt, updatedAt) ==
  Spread(policy, [id |-> id, createdAt |-> createdAt, updatedAt |-> updatedAt])

addPolicyList(list, newPolicy) == Append(list, newPolicy)

\* variant: the timestamp is refreshed on every record, matching or not
updatePolicyList_StampsAll(list, id, updates, updatedAt) ==
  [i \in DOMAIN list |->
     Spread(IF list[i].id = id THEN Spread(list[i], updates) ELSE list[i],
            [updatedAt |-> updatedAt])]


updatePolicyList(list, id, updates, updatedAt) ==
  [i \in DOMAIN list |->
     IF list[i].id = id
     THEN Spread(Spread(list[i], updates), [updatedAt |-> updatedAt])
     ELSE list[i]]

\* variant: findIndex and splice, where splice(-1, 1) removes the last record
deletePolicyList_Splice(list, id) ==
  IF \E i \in DOMAIN list : list[i].id = id
  THEN LET k == CHOOSE i \in DOMAIN list :
                  /\ list[i].id = id
                  /\ \A j \in DOMAIN list : list[j].id = id => i <= j
       IN  SubSeq(list, 1, k - 1) \o SubSeq(list, k + 1, Len(list))
  ELSE SubSeq(list, 1, Len(list) - 1)


deletePolicyList(list, id) == SelectSeq(list, LAMBDA policy : policy.id # id)

\* try { await sendPolicyAddedSMS(..) } catch { console.error(..) }: how the
\* promise returned by addPolicy settles for each outcome of the SMS call
SmsOutcomes == {"true", "false", "throw"}

\* variant: no catch around the awaited call
addPolicySettles_NoCatch(smsOutcome) ==
  IF smsOutcome = "throw" THEN "rejected" ELSE "fulfilled"


addPolicySettles(smsOutcome) == "fulfilled"

smsLogged(smsOutcome) ==
  IF smsOutcome = "true" THEN "log"
  ELSE IF smsOutcome = "throw" THEN "error" ELSE "none"

\* -------------------------------------------------------------------- queries
monthlyTerm(policy) ==
  IF Get(policy, "renewalFrequency") = "monthly"
  THEN RatInt(policy.policyPremiumAmount)
  ELSE Rat(policy.policyPremiumAmount, 12)

\* variant: a missing frequency counted as yearly, as the migration does
yearlyTerm_DefaultYearly(policy) ==
  IF Get(policy, "renewalFrequency") = "monthly"
  THEN policy.policyPremiumAmount * 12
  ELSE policy.policyPremiumAmount


yearlyTerm(policy) ==
  IF Get(policy, "renewalFrequency") = "yearly"
  THEN policy.policyPremiumAmount
  ELSE policy.policyPremiumAmount * 12

frequencyOf(policy) ==
  IF Get(policy, "renewalFrequency") = Undefined
  THEN "yearly" ELSE policy.renewalFrequency

categoryOf(policy) == policy.insuranceCategory

\* policies.reduce((sum, policy) => ..., 0), left to right from acc
RECURSIVE totalPremiumFrom(_, _)
totalPremiumFrom(list, acc) ==
  IF list = <<>> THEN acc
  ELSE totalPremiumFrom(Tail(list), acc + Head(list).policyPremiumAmount)

RECURSIVE monthlyPremiumTotalFrom(_, _)
monthlyPremiumTotalFrom(list, acc) ==
  IF list = <<>> THEN acc
  ELSE monthlyPremiumTotalFrom(Tail(list), RatAdd(acc, monthlyTerm(Head(list))))

RECURSIVE yearlyPremiumTotalFrom(_, _)
yearlyPremiumTotalFrom(list, acc) ==
  IF list = <<>> THEN acc
  ELSE yearlyPremiumTotalFrom(Tail(list), acc + yearlyTerm(Head(list)))

categoryDistribution(list) ==
  [k \in {categoryOf(list[i]) : i \in DOMAIN list} |->
     Cardinality({i \in DOMAIN list : categoryOf(list[i]) = k})]

renewalFrequencyDistribution(list) ==
  [k \in {frequencyOf(list[i]) : i \in DOMAIN list} |->
     Cardinality({i \in DOMAIN list : frequencyOf(list[i]) = k})]

\* getStats without the two distributions computed by the date utilities
getStats(list) ==
  LET totalPolicies == Len(list)
      totalPremium == totalPremiumFrom(list, 0)
  IN  [totalPolicies |-> totalPolicies,
       totalPremium |-> totalPremium,
       avgPremium |-> IF totalPolicies > 0 THEN Rat(totalPremium, totalPolicies)
                      ELSE RatInt(0),
       categoryDistribution |-> categoryDistribution(list),
       renewalFrequencyDistribution |-> renewalFrequencyDistribution(list),
       monthlyPremiumTotal |-> monthlyPremiumTotalFrom(list, RatInt(0)),
       yearlyPremiumTotal |-> yearlyPremiumTotalFrom(list, 0)]

\* variant: the operands swapped, latest renewal first
compareAlerts_Descending(a, b) == b.daysUntilRenewal - a.daysUntilRenewal


\* the comparator given to sort
compareAlerts(a, b) == a.daysUntilRenewal - b.daysUntilRenewal

\* Array.prototype.sort is stable: an element goes after every element that
\* does not compare greater than it
RECURSIVE InsertSorted(_, _)
InsertSorted(sorted, x) ==
  IF sorted = <<>> THEN <<x>>
  ELSE IF compareAlerts(Head(sorted), x) > 0 THEN <<x>> \o sorted
       ELSE <<Head(sorted)>> \o InsertSorted(Tail(sorted), x)

RECURSIVE SortAlertsFrom(_, _)
SortAlertsFrom(list, sorted) ==
  IF list = <<>> THEN sorted
  ELSE SortAlertsFrom(Tail(list), InsertSorted(sorted, Head(list)))

SortAlerts(list) == SortAlertsFrom(list, <<>>)

getRenewalAlerts(list) ==
  LET due == SelectSeq(list, LAMBDA policy : isRenewalDueSoon(policy.policyRenewalDate))
      alerts == [i \in DOMAIN due |->
                   [policy |-> due[i],
                    daysUntilRenewal |-> getDaysUntilRenewal(due[i].policyRenewalDate)]]
  IN  SortAlerts(alerts)

\* ---------------------------------------------------------------------- state
VARIABLES
  policies,        \* React state as seen by the current render
  loading,         \* React state as seen by the current render
  queuedPolicies,  \* <<>> or <<list>>: setPolicies not rendered yet
  queuedLoading,   \* <<>> or <<FALSE>>: setLoading not rendered yet
  effectRan,       \* the mount effect has run
  storage,         \* the list held by the persistence shim
  scheduler,       \* <<>> or <<list>>: argument of initializeSMSScheduler
  sms,             \* per added policy: outcome of the SMS and of addPolicy
  now,             \* the clock
  nextId,          \* number of ids generated so far, plus one
  ops,             \* mutations issued so far
  tick             \* record of the handler calls since the last render

vars == <<policies, loading, queuedPolicies, queuedLoading, effectRan, storage,
          scheduler, sms, now, nextId, ops, tick>>

Init ==
  /\ policies = <<>>
  /\ loading = TRUE
  /\ queuedPolicies = <<>>
  /\ queuedLoading = <<>>
  /\ effectRan = FALSE
  /\ storage \in StoredLists
  /\ scheduler = <<>>
  /\ sms = <<>>
  /\ now = 0
  /\ nextId = 1
  /\ ops = 0
  /\ tick = <<>>

\* the list React will show at the next render
Latest == IF queuedPolicies = <<>> THEN policies ELSE queuedPolicies[1]

\* useEffect(() => {...}, []): runs once after the first render
Initialize ==
  /\ ~effectRan
  /\ LET loadedPolicies == loadFromLocalStorage(storage)
         migratedPolicies == migratePolicies(loadedPolicies)
         changed == migrationChanged(migratedPolicies, loadedPolicies)
     IN  /\ storage' = IF changed
                       THEN saveToLocalStorage(storage, migratedPolicies)
                       ELSE storage
         /\ queuedPolicies' = <<migratedPolicies>>
         /\ queuedLoading' = <<FALSE>>
         /\ scheduler' = IF Len(migratedPolicies) > 0
                         THEN <<migratedPolicies>> ELSE <<>>
         /\ tick' = << [name |-> "initialize", loaded |-> loadedPolicies,
                        written |-> migratedPolicies,
                        saved |-> IF changed THEN <<migratedPolicies>> ELSE <<>>] >>
  /\ effectRan' = TRUE
  /\ UNCHANGED <<policies, loading, sms, now, nextId, ops>>

\* React renders the queued state; a new render creates new handler closures
Render ==
  /\ queuedPolicies # <<>> \/ queuedLoading # <<>>
  /\ policies' = Latest
  /\ loading' = IF queuedLoading = <<>> THEN loading ELSE queuedLoading[1]
  /\ queuedPolicies' = <<>>
  /\ queuedLoading' = <<>>
  /\ tick' = <<>>
  /\ UNCHANGED <<effectRan, storage, scheduler, sms, now, nextId, ops>>

\* a handler can be called once the list is shown, a bounded number of times
CanMutate ==
  /\ loading = FALSE
  /\ ops < MaxOps
  /\ Len(tick) < MaxPerTick

\* the common tail of the three mutations: savePolicies(newPolicies)
Commit(newPolicies, entry) ==
  LET r == savePolicies(newPolicies)
  IN  /\ queuedPolicies' = IF r.state = <<>> THEN queuedPolicies ELSE r.state
      /\ storage' = IF r.saved = <<>> THEN storage
                    ELSE saveToLocalStorage(storage, r.saved[1])
      /\ tick' = Append(tick, Spread(entry, [written |-> newPolicies, saved |-> r.saved]))
      /\ ops' = ops + 1

AddPolicy ==
  /\ CanMutate
  /\ \E policy \in AddInputs :
     \E t1 \in now .. Min(now + 1, MaxTime) :
     \E t2 \in t1 .. Min(t1 + 1, MaxTime) :
       LET base == closurePolicies(policies, queuedPolicies)
           newPolicy == newPolicyOf(policy, randomUUID(nextId),
                                    toISOString(t1), toISOString(t2))
       IN  /\ Commit(addPolicyList(base, newPolicy),
                     [name |-> "addPolicy", base |-> base, input |-> policy,
                      newPolicy |-> newPolicy])
           /\ sms' = Append(sms, [id |-> newPolicy.id, outcome |-> "pending",
                                  promise |-> "pending", logged |-> "none"])
           /\ now' = t2
  /\ nextId' = nextId + 1
  /\ UNCHANGED <<policies, loading, queuedLoading, effectRan, scheduler>>

\* the awaited sendPolicyAddedSMS settles, and with it the addPolicy promise
SmsSettles ==
  /\ \E n \in DOMAIN sms : \E outcome \in SmsOutcomes :
       /\ sms[n].outcome = "pending"
       /\ sms' = [sms EXCEPT ![n] = [id |-> sms[n].id, outcome |-> outcome,
                                      promise |-> addPolicySettles(outcome),
                                      logged |-> smsLogged(outcome)]]
  /\ UNCHANGED <<policies, loading, queuedPolicies, queuedLoading, effectRan,
                 storage, scheduler, now, nextId, ops, tick>>

UpdatePolicy ==
  /\ CanMutate
  /\ \E id \in CallerIds(policies) :
     \E updates \in UpdateInputs(policies) :
     \E t \in now .. Min(now + 1, MaxTime) :
       LET base == closurePolicies(policies, queuedPolicies)
       IN  /\ Commit(updatePolicyList(base, id, updates, toISOString(t)),
                     [name |-> "updatePolicy", base |-> base, id |-> id,
                      updates |-> updates])
           /\ now' = t
  /\ UNCHANGED <<policies, loading, queuedLoading, effectRan, scheduler, sms, nextId>>

DeletePolicy ==
  /\ CanMutate
  /\ \E id \in CallerIds(policies) :
       LET base == closurePolicies(policies, queuedPolicies)
       IN  Commit(deletePolicyList(base, id),
                  [name |-> "deletePolicy", base |-> base, id |-> id])
  /\ UNCHANGED <<policies, loading, queuedLoading, effectRan, scheduler, sms,
                 now, nextId>>

Next ==
  \/ Initialize
  \/ Render
  \/ AddPolicy
  \/ SmsSettles
  \/ UpdatePolicy
  \/ DeletePolicy

Spec == Init /\ [][Next]_vars

\* ================================================================== properties
Ids(list) == {list[i].id : i \in DOMAIN list}

IdSeq(list) == [i \in DOMAIN list |-> list[i].id]

UniqueIds(list) ==
  \A i, j \in DOMAIN list : list[i].id = list[j].id => i = j

IsMutation(e) == e.name \in {"addPolicy", "updatePolicy", "deletePolicy"}

StoreFields == {"id", "createdAt", "updatedAt"}

\* ---- C1
\* C1: an addPolicy(input) issued against the current list of n policies gives
\* a list of n+1 policies, the previous list followed by one new record that
\* carries the caller's fields and an id no record of the list has, and
\* getStats().totalPolicies goes from n to n+1, also once the list is rendered.
C1_AddIssued ==
  /\ tick = <<>>
  /\ Len(tick') = 1
  /\ tick'[1].name = "addPolicy"

C1_AddRendered ==
  /\ Len(tick) = 1
  /\ tick[1].name = "addPolicy"
  /\ tick' = <<>>

C1_AddStep ==
  C1_AddIssued =>
    LET n == Len(policies)
        new == queuedPolicies'[1]
        input == tick'[1].input
    IN  /\ Len(new) = n + 1
        /\ SubSeq(new, 1, n) = policies
        /\ \A f \in (DOMAIN input) \ StoreFields : new[n + 1][f] = input[f]
        /\ DOMAIN new[n + 1] = (DOMAIN input) \cup StoreFields
        /\ new[n + 1].id \notin Ids(policies)
        /\ getStats(policies).totalPolicies = n
        /\ getStats(new).totalPolicies = n + 1
        /\ storage' = new

C1_RenderStep ==
  C1_AddRendered =>
    /\ getStats(policies').totalPolicies = getStats(policies).totalPolicies + 1
    /\ policies' = tick[1].written

C1_AddAppendsOne == [][C1_AddStep /\ C1_RenderStep]_vars

\* a rendered list that ends with a record added from a caller's whole Policy
\* object, after at least one other record
C1_Witness ==
  /\ tick = <<>>
  /\ Len(policies) >= 2
  /\ policies[Len(policies)].policyholderName = "Ann"
  /\ policies[Len(policies)].id = <<"uuid", 1>>
  /\ policies[1].id = <<"uuid", 101>>

\* ---- C2
\* C2: in every reachable state no two policies of the list (in memory, queued
\* or stored) have the same id, and an updatePolicy call leaves the id of
\* every record as it was.
C2_IdsUniqueAndImmutable ==
  /\ UniqueIds(policies)
  /\ UniqueIds(Latest)
  /\ UniqueIds(storage)
  /\ \A k \in DOMAIN tick :
       tick[k].name = "updatePolicy" => IdSeq(tick[k].written) = IdSeq(tick[k].base)

\* ---- C3
\* C3: initialization persists if and only if a loaded record lacks
\* renewalFrequency; it then persists once, the migrated list; the list given
\* to React has the length and order of the loaded list, every record with a
\* renewalFrequency: "yearly" where it was missing, the loaded value otherwise.
C3_Lacks(policy) == Get(policy, "renewalFrequency") = Undefined

C3_MigrationOnLoad ==
  (tick # <<>> /\ tick[1].name = "initialize") =>
    LET loaded == tick[1].loaded
        memory == queuedPolicies[1]
    IN  /\ (tick[1].saved # <<>>) <=> (\E i \in DOMAIN loaded : C3_Lacks(loaded[i]))
        /\ Len(tick[1].saved) <= 1
        /\ tick[1].saved # <<>> => tick[1].saved[1] = memory /\ storage = memory
        /\ tick[1].saved = <<>> => storage = loaded
        /\ Len(memory) = Len(loaded)
        /\ \A i \in DOMAIN loaded :
             /\ memory[i].renewalFrequency =
                  (IF C3_Lacks(loaded[i]) THEN "yearly" ELSE loaded[i].renewalFrequency)
             /\ \A f \in DOMAIN loaded[i] :
                  f # "renewalFrequency" => memory[i][f] = loaded[i][f]
             /\ DOMAIN memory[i] = (DOMAIN loaded[i]) \cup {"renewalFrequency"}

\* a load of two records, one with a frequency and one without, written back
C3_Witness ==
  /\ tick # <<>>
  /\ tick[1].name = "initialize"
  /\ tick[1].saved # <<>>
  /\ \E i, j \in DOMAIN tick[1].loaded :
       /\ C3_Lacks(tick[1].loaded[i])
       /\ ~C3_Lacks(tick[1].loaded[j])
       /\ queuedPolicies[1][j].renewalFrequency = tick[1].loaded[j].renewalFrequency
       /\ queuedPolicies[1][i].renewalFrequency = "yearly"

\* a load of records that all have a frequency, with nothing written back
C3_WitnessNoRewrite ==
  /\ tick # <<>>
  /\ tick[1].name = "initialize"
  /\ tick[1].saved = <<>>
  /\ tick[1].loaded # <<>>

\* ---- C4
\* C4: updatePolicy(id, partialFields) with an id present in the list keeps
\* the length and order of the list, leaves every record with another id as
\* it was, and in a record with that id changes only the fields named in
\* partialFields and updatedAt.
C4_Hit(e) == e.name = "updatePolicy" /\ e.id \in Ids(e.base)

C4_UpdateFrame ==
  \A k \in DOMAIN tick :
    C4_Hit(tick[k]) =>
      LET e == tick[k] IN
        /\ Len(e.written) = Len(e.base)
        /\ \A i \in DOMAIN e.base :
             IF e.base[i].id # e.id
             THEN e.written[i] = e.base[i]
             ELSE /\ \A f \in (DOMAIN e.base[i]) \ ((DOMAIN e.updates) \cup {"updatedAt"}) :
                       /\ f \in DOMAIN e.written[i]
                       /\ e.written[i][f] = e.base[i][f]
                  /\ DOMAIN e.written[i]
                       = (DOMAIN e.base[i]) \cup (DOMAIN e.updates) \cup {"updatedAt"}

\* an update of one of two records that changed its premium
C4_Witness ==
  \E k \in DOMAIN tick :
    /\ C4_Hit(tick[k])
    /\ Len(tick[k].base) >= 2
    /\ "policyPremiumAmount" \in DOMAIN tick[k].updates
    /\ tick[k].written # tick[k].base
    /\ storage = tick[k].written

\* ---- C5
\* C5: updatePolicy or deletePolicy with an id that matches no record leaves
\* the in-memory list as it was, and still makes one persist call, with a list
\* identical to the existing one.
C5_Miss(e) ==
  /\ e.name \in {"updatePolicy", "deletePolicy"}
  /\ e.id \notin Ids(e.base)

C5_UnknownIdNoOp ==
  \A k \in DOMAIN tick :
    C5_Miss(tick[k]) =>
      /\ tick[k].base = policies
      /\ tick[k].written = policies
      /\ tick[k].saved = <<policies>>
      /\ k = Len(tick) => storage = policies /\ queuedPolicies = <<policies>>

\* an update and a delete of an unknown id against a list of two records
C5_Witness ==
  /\ Len(tick) = 2
  /\ C5_Miss(tick[1]) /\ tick[1].name = "updatePolicy"
  /\ C5_Miss(tick[2]) /\ tick[2].name = "deletePolicy"
  /\ Len(policies) >= 2

\* ---- C6
\* C6: the record added by addPolicy is in the queued in-memory list and in
\* storage while its notification is still pending; the notification settling
\* (sent, not sent, or failed) changes neither list, and the promise of
\* addPolicy is fulfilled in every outcome, never rejected.
C6_AddCommits ==
  (Len(sms') = Len(sms) + 1) =>
    LET id == sms'[Len(sms')].id IN
      /\ sms'[Len(sms')].outcome = "pending"
      /\ id \in Ids(storage')
      /\ id \in Ids(queuedPolicies'[1])

C6_SettleKeeps ==
  (Len(sms') = Len(sms) /\ sms' # sms) =>
    /\ UNCHANGED <<policies, queuedPolicies, storage>>
    /\ \A n \in DOMAIN sms :
         sms'[n] # sms[n] =>
           /\ sms[n].outcome = "pending"
           /\ sms'[n].outcome \in SmsOutcomes
           /\ sms'[n].promise = "fulfilled"

C6_NotificationNeverUndoesAdd == [][C6_AddCommits /\ C6_SettleKeeps]_vars

\* a failed notification, logged, with the added record rendered and stored
C6_Witness ==
  \E n \in DOMAIN sms :
    /\ sms[n].outcome = "throw"
    /\ sms[n].logged = "error"
    /\ sms[n].id \in Ids(policies)
    /\ sms[n].id \in Ids(storage)

\* ---- C7
\* C7: once initialization has run, the list in storage is the list last
\* given to React, so it equals the in-memory list whenever no render is
\* outstanding; every mutation persists exactly the whole list it wrote.
C7_StorageMirrorsMemory ==
  /\ effectRan => storage = Latest
  /\ (loading = FALSE /\ queuedPolicies = <<>>) => storage = policies
  /\ \A k \in DOMAIN tick :
       IsMutation(tick[k]) => tick[k].saved = <<tick[k].written>>

\* a rendered, stored list of at least two records after two mutations
C7_Witness ==
  /\ loading = FALSE
  /\ queuedPolicies = <<>>
  /\ ops >= 2
  /\ Len(policies) >= 2
  /\ storage = policies

\* ---- C8
\* C8: getStats() gives monthlyPremiumTotal as the sum of (premium if monthly,
\* otherwise premium/12) and yearlyPremiumTotal as the sum of (premium if
\* yearly, otherwise premium*12); premiums 1200 monthly and 1200 yearly give
\* 1300 and 15600, and avgPremium 1200.
C8_MonthlyTwelfths(policy) ==
  IF Get(policy, "renewalFrequency") = "monthly"
  THEN 12 * policy.policyPremiumAmount ELSE policy.policyPremiumAmount

C8_Yearly(policy) ==
  IF Get(policy, "renewalFrequency") = "yearly"
  THEN policy.policyPremiumAmount ELSE 12 * policy.policyPremiumAmount

\* sums over the positions S of the list, in any order
RECURSIVE C8_SumMonthlyTwelfths(_, _)
C8_SumMonthlyTwelfths(list, S) ==
  IF S = {} THEN 0
  ELSE LET i == CHOOSE x \in S : TRUE
       IN  C8_MonthlyTwelfths(list[i]) + C8_SumMonthlyTwelfths(list, S \ {i})

RECURSIVE C8_SumYearly(_, _)
C8_SumYearly(list, S) ==
  IF S = {} THEN 0
  ELSE LET i == CHOOSE x \in S : TRUE
       IN  C8_Yearly(list[i]) + C8_SumYearly(list, S \ {i})

C8_Example(list) ==
  /\ Len(list) = 2
  /\ list[1].policyPremiumAmount = 1200 /\ Get(list[1], "renewalFrequency") = "monthly"
  /\ list[2].policyPremiumAmount = 1200 /\ Get(list[2], "renewalFrequency") = "yearly"

C8_TotalsOf(list) ==
  LET stats == getStats(list) IN
    /\ stats.monthlyPremiumTotal[1] * 12
         = C8_SumMonthlyTwelfths(list, DOMAIN list) * stats.monthlyPremiumTotal[2]
    /\ stats.monthlyPremiumTotal[2] > 0
    /\ stats.yearlyPremiumTotal = C8_SumYearly(list, DOMAIN list)
    /\ C8_Example(list) =>
         /\ stats.monthlyPremiumTotal = <<1300, 1>>
         /\ stats.yearlyPremiumTotal = 15600
         /\ stats.avgPremium = <<1200, 1>>

C8_PremiumTotals == C8_TotalsOf(policies)

\* the list of the example, rendered
C8_Witness == loading = FALSE /\ C8_Example(policies)

\* a rendered list with a record without frequency and a fractional total
C8_WitnessFraction ==
  /\ \E i \in DOMAIN policies : Get(policies[i], "renewalFrequency") = Undefined
  /\ policies # <<>>
  /\ getStats(policies).monthlyPremiumTotal[2] > 1

\* ---- C9
\* C9: getRenewalAlerts() has one alert for each policy that is due soon and
\* none for another, each with that policy's days until renewal, in ascending
\* order of days, alerts of equal days in the order of the list.
C9_Due(list) == {i \in DOMAIN list : isRenewalDueSoon(list[i].policyRenewalDate)}

C9_Days(list, i) == getDaysUntilRenewal(list[i].policyRenewalDate)

\* the number of due policies that come before policy i in the claimed order
C9_Rank(list, i) ==
  Cardinality({j \in C9_Due(list) :
                 \/ C9_Days(list, j) < C9_Days(list, i)
                 \/ C9_Days(list, j) = C9_Days(list, i) /\ j < i})

C9_AlertsOf(list) ==
  LET alerts == getRenewalAlerts(list) IN
    /\ Len(alerts) = Cardinality(C9_Due(list))
    /\ \A i \in C9_Due(list) :
         /\ alerts[C9_Rank(list, i) + 1].policy = list[i]
         /\ alerts[C9_Rank(list, i) + 1].daysUntilRenewal = C9_Days(list, i)

C9_RenewalAlerts == C9_AlertsOf(policies)

\* a due policy listed before one that is due sooner, and one not due
C9_Witness ==
  /\ \E i, j \in C9_Due(policies) : i < j /\ C9_Days(policies, j) < C9_Days(policies, i)
  /\ \E i \in DOMAIN policies : i \notin C9_Due(policies)

\* two due policies with the same number of days, and a third due later
C9_WitnessTie ==
  /\ \E i, j \in C9_Due(policies) :
       /\ i < j
       /\ C9_Days(policies, j) = C9_Days(policies, i)
       /\ policies[i] # policies[j]
  /\ Cardinality(C9_Due(policies)) >= 3

\* ---- C10
\* C10: two mutations issued in the same tick both compute from the list of
\* the current render; the list written second is the one in storage and the
\* one queued for memory, and a record added by the first is in neither.
C10_SameTick ==
  /\ Len(tick) >= 2
  /\ \A k \in DOMAIN tick : IsMutation(tick[k])

C10_LastWriteWins ==
  C10_SameTick =>
    LET last == tick[Len(tick)] IN
      /\ \A k \in DOMAIN tick : tick[k].base = policies
      /\ storage = last.written
      /\ queuedPolicies = <<last.written>>
      /\ \A k \in 1 .. (Len(tick) - 1) :
           tick[k].name = "addPolicy" =>
             /\ tick[k].newPolicy.id \notin Ids(storage)
             /\ tick[k].newPolicy.id \notin Ids(queuedPolicies[1])
             /\ tick[k].newPolicy.id \in Ids(tick[k].written)

\* an add followed in the same tick by the delete of another record
C10_Witness ==
  /\ Len(tick) = 2
  /\ tick[1].name = "addPolicy"
  /\ tick[2].name = "deletePolicy"
  /\ tick[2].id \in Ids(policies)
  /\ Len(storage) < Len(policies)

====
